---- MODULE Spec2Model ----
(***************************************************************************)
(* A model of the JADN schema validator (jadn/core.py: check, analyze) and *)
(* of the JIDL text converter (jadn/convert/jidl.py: jidl_dumps,           *)
(* line2jadn, jidl_loads).                                                 *)
(*                                                                         *)
(* Python strings are sequences of one-character strings, so that the      *)
(* regular expressions, the column formatting and the option micro-format  *)
(* are computed character by character.  Python's 0-based tuple indexes    *)
(* keep their values (FieldID = 0, ...); At(t, k) reads t[k].              *)
(***************************************************************************)
EXTENDS Integers, Sequences, FiniteSets, TLC

VARIABLES
    heap,       \* check: object id -> schema dict (a record with field types)
    arg,        \* check: the object id the caller passes to check
    given,      \* check: the value of the caller's types before the call
    result,     \* check: object id returned (0: nothing returned yet / raised)
    error,      \* check: the error raised, its kind "" when none was
    cpc,        \* check: "idle" | "start" | "done"
    aschema,    \* analyze: the schema dict passed to analyze
    aresult,    \* analyze: the dict returned
    apc,        \* analyze: "idle" | "start" | "done"
    source,     \* jidl_dumps: the schema the document was dumped from, if any
    doc,        \* jidl_loads: doc.splitlines()
    n,          \* jidl_loads: number of lines consumed by the loop
    meta,       \* jidl_loads: meta, a sequence of <<key, value>> in insertion order
    types,      \* jidl_loads: types
    fields,     \* jidl_loads: "None" or "ref" (an alias of types[-1][Fields])
    cleanups,   \* jidl_loads: per type, the number of cleanup_tagid passes run on its fields
    loaded,     \* jidl_loads: the value returned
    jpc         \* jidl_loads: "idle" | "loop" | "returned" | the exception raised

vars == <<heap, arg, given, result, error, cpc, aschema, aresult, apc,
          source, doc, n, meta, types, fields, cleanups, loaded, jpc>>

checkVars == <<heap, arg, given, result, error, cpc>>
analyzeVars == <<aschema, aresult, apc>>
jidlVars == <<source, doc, n, meta, types, fields, cleanups, loaded, jpc>>

(***************************************************************************)
(* Characters and strings                                                  *)
(***************************************************************************)
DigitChars == <<"0", "1", "2", "3", "4", "5", "6", "7", "8", "9">>

Digits == {DigitChars[i] : i \in 1..10}

\* \s
Space == {" ", "\t"}

\* \w
Word ==
    {"a", "b", "c", "d", "e", "f", "g", "h", "i", "j", "k", "l", "m",
     "n", "o", "p", "q", "r", "s", "t", "u", "v", "w", "x", "y", "z",
     "A", "B", "C", "D", "E", "F", "G", "H", "I", "J", "K", "L", "M",
     "N", "O", "P", "Q", "R", "S", "T", "U", "V", "W", "X", "Y", "Z"}
    \cup Digits \cup {"_"}

At(t, k) == t[k + 1]

\* s[i:] with i a 1-based position
From(s, i) == SubSeq(s, i, Len(s))

\* the position after the longest run of characters of class cls starting at i
RECURSIVE RunEnd(_, _, _)
RunEnd(s, i, cls) ==
    IF i <= Len(s) /\ s[i] \in cls THEN RunEnd(s, i + 1, cls) ELSE i

\* whether the literal lit occurs in s at position i
StartsAt(s, i, lit) ==
    /\ i + Len(lit) - 1 <= Len(s)
    /\ SubSeq(s, i, i + Len(lit) - 1) = lit

RECURSIVE LStrip(_)
LStrip(s) == IF s # <<>> /\ Head(s) \in Space THEN LStrip(Tail(s)) ELSE s

RECURSIVE RStrip(_)
RStrip(s) ==
    IF s # <<>> /\ s[Len(s)] \in Space THEN RStrip(SubSeq(s, 1, Len(s) - 1)) ELSE s

\* str.strip()
Strip(s) == LStrip(RStrip(s))

\* int(s) for a non-empty string of decimal digits
RECURSIVE IntOf(_)
IntOf(s) ==
    IF s = <<>> THEN 0
    ELSE 10 * IntOf(SubSeq(s, 1, Len(s) - 1)) + (CHOOSE i \in 1..10 : DigitChars[i] = s[Len(s)]) - 1

\* str(k) for k >= 0
RECURSIVE StrOf(_)
StrOf(k) ==
    IF k < 10 THEN <<DigitChars[k + 1]>>
    ELSE StrOf(k \div 10) \o <<DigitChars[(k % 10) + 1]>>

RECURSIVE Blanks(_)
Blanks(k) == IF k <= 0 THEN <<>> ELSE <<" ">> \o Blanks(k - 1)

\* format(s, '>w') and format(s, '<w')
PadLeft(s, w) == Blanks(w - Len(s)) \o s

PadRight(s, w) == s \o Blanks(w - Len(s))

\* LET x == v IN F(x), with v evaluated once
Let(v, F(_)) == F(v)

\* a lazy group (.*?) starting at i: the least end position j such that the
\* rest of the pattern matches from j (tail(Len(s) + 1) must hold)
LazyEnd(s, i, tail(_)) ==
    CHOOSE j \in i..(Len(s) + 1) : tail(j) /\ \A k \in i..(j - 1) : ~tail(k)

(***************************************************************************)
(* Type registry (jadn/definitions.py) and helpers of jadn/utils.py.  The  *)
(* two files are not part of the source tree at hand; they are modelled    *)
(* from the specification (sections 3, 4.1 and 6).                         *)
(***************************************************************************)
\* column indexes of a type definition
TypeName == 0

BaseType == 1

TypeOptions == 2

TypeDesc == 3

Fields == 4

\* column indexes of an Enumerated item
ItemID == 0

ItemValue == 1

ItemDesc == 2

\* column indexes of a general field
FieldID == 0

FieldName == 1

FieldType == 2

FieldOptions == 3

FieldDesc == 4

Binary == <<"B", "i", "n", "a", "r", "y">>

Boolean == <<"B", "o", "o", "l", "e", "a", "n">>

Integer == <<"I", "n", "t", "e", "g", "e", "r">>

Number == <<"N", "u", "m", "b", "e", "r">>

String == <<"S", "t", "r", "i", "n", "g">>

Enumerated == <<"E", "n", "u", "m", "e", "r", "a", "t", "e", "d">>

Choice == <<"C", "h", "o", "i", "c", "e">>

Array == <<"A", "r", "r", "a", "y">>

ArrayOf == <<"A", "r", "r", "a", "y", "O", "f">>

Map == <<"M", "a", "p">>

MapOf == <<"M", "a", "p", "O", "f">>

Record == <<"R", "e", "c", "o", "r", "d">>

CORE_TYPES ==
    {Binary, Boolean, Integer, Number, String, Enumerated, Choice,
     Array, ArrayOf, Map, MapOf, Record}

is_builtin(t) == t \in CORE_TYPES

has_fields(t) == t \in {Array, ArrayOf, Choice, Enumerated, Map, MapOf, Record}

\* field-tuple length prescribed for a base type (3 for Enumerated items, 5
\* for general fields, no fields otherwise)
FIELD_LENGTH(t) ==
    IF t = Enumerated THEN 3
    ELSE IF t \in {Choice, Array, Map, Record} THEN 5
    ELSE 0

\* option tag character -> option key.  The tags of and / or are not fixed by
\* the specification; "A" and "O" stand for them.
TYPE_OPTION_KEY ==
    [c \in {"=", "*", "+", "#", ">", "/", "%", "y", "z", "{", "}", "q", "s", "b", "X", "!", "A", "O"} |->
        CASE c = "=" -> "id"
          [] c = "*" -> "vtype"
          [] c = "+" -> "ktype"
          [] c = "#" -> "enum"
          [] c = ">" -> "pointer"
          [] c = "/" -> "format"
          [] c = "%" -> "pattern"
          [] c = "y" -> "minf"
          [] c = "z" -> "maxf"
          [] c = "{" -> "minv"
          [] c = "}" -> "maxv"
          [] c = "q" -> "unique"
          [] c = "s" -> "set"
          [] c = "b" -> "unordered"
          [] c = "X" -> "extend"
          [] c = "!" -> "default"
          [] c = "A" -> "and"
          [] c = "O" -> "or"]

FIELD_OPTION_KEY ==
    [c \in {"[", "]", "&", "<", "K", "L"} |->
        CASE c = "[" -> "minc"
          [] c = "]" -> "maxc"
          [] c = "&" -> "tagid"
          [] c = "<" -> "dir"
          [] c = "K" -> "key"
          [] c = "L" -> "link"]

IsNumeral(s) == s # <<>> /\ \A i \in 1..Len(s) : s[i] \in Digits

\* the value an option string carries: the text after the tag character,
\* converted by the option's type (a flag, an integer or a string)
OptValue(key, text) ==
    IF key \in {"id", "unique", "set", "unordered", "dir", "key", "link", "and", "or"}
        THEN <<"T">>
    ELSE IF key \in {"minv", "maxv", "minf", "maxf", "minc", "maxc", "tagid"} /\ IsNumeral(text)
        THEN IntOf(text)
    ELSE text

\* a dict with one more item (a later item of the same key replaces the earlier)
Put(d, key, val) ==
    [k \in DOMAIN d \cup {key} |-> IF k = key THEN val ELSE d[k]]

EmptyDict == [k \in {} |-> 0]

RECURSIVE topts_s2d(_)
topts_s2d(olist) ==
    IF olist = <<>> THEN EmptyDict
    ELSE LET o == olist[Len(olist)]
             key == TYPE_OPTION_KEY[o[1]]
         IN  Put(topts_s2d(SubSeq(olist, 1, Len(olist) - 1)), key, OptValue(key, Tail(o)))

RECURSIVE SelectOpts(_, _)
SelectOpts(olist, want) ==
    IF olist = <<>> THEN <<>>
    ELSE IF (Head(olist)[1] \in DOMAIN FIELD_OPTION_KEY) = want
         THEN <<Head(olist)>> \o SelectOpts(Tail(olist), want)
         ELSE SelectOpts(Tail(olist), want)

RECURSIVE fopts_s2d(_)
fopts_s2d(olist) ==
    IF olist = <<>> THEN EmptyDict
    ELSE LET o == olist[Len(olist)]
             key == FIELD_OPTION_KEY[o[1]]
         IN  Put(fopts_s2d(SubSeq(olist, 1, Len(olist) - 1)), key, OptValue(key, Tail(o)))

\* ftopts_s2d: the field options and the type options of a field's option list
ftopts_s2d(olist) ==
    [fo |-> fopts_s2d(SelectOpts(olist, TRUE)),
     fto |-> topts_s2d(SelectOpts(olist, FALSE))]

\* dict.get(key, default)
Get(d, key, default) == IF key \in DOMAIN d THEN d[key] ELSE default

\* get_optx(opts, 'id') is not None
HasIdOption(opts) == \E i \in 1..Len(opts) : opts[i][1] = "="

REQUIRED_TYPE_OPTIONS(t) ==
    IF t = ArrayOf THEN {"vtype"}
    ELSE IF t = MapOf THEN {"ktype", "vtype"}
    ELSE {}

ALLOWED_TYPE_OPTIONS(t) ==
    CASE t = Binary -> {"minv", "maxv", "format"}
      [] t = Boolean -> {}
      [] t = Integer -> {"minv", "maxv", "format"}
      [] t = Number -> {"minf", "maxf", "format"}
      [] t = String -> {"minv", "maxv", "format", "pattern"}
      [] t = Enumerated -> {"id", "enum", "pointer", "extend"}
      [] t = Choice -> {"id", "extend"}
      [] t = Array -> {"extend", "format", "minv", "maxv"}
      [] t = ArrayOf -> {"vtype", "minv", "maxv", "unique", "set", "unordered"}
      [] t = Map -> {"id", "extend", "minv", "maxv"}
      [] t = MapOf -> {"ktype", "vtype", "minv", "maxv"}
      [] t = Record -> {"extend", "minv", "maxv"}

\* format registry: no format tag is used by the schemas of this model
VALID_FORMATS == [f \in {} |-> String]

(***************************************************************************)
(* core.py: check_typeopts and check                                       *)
(***************************************************************************)
\* the error raised: its message kind and the values the message embeds
Err(kind, tname, fname, id, idx) ==
    [kind |-> kind, type |-> tname, field |-> fname, id |-> id, idx |-> idx]

NoError == Err("", <<>>, <<>>, -1, -1)

\* the first error of a list of checks done in order
RECURSIVE FirstError(_)
FirstError(errs) ==
    IF errs = <<>> THEN NoError
    ELSE IF Head(errs).kind # "" THEN Head(errs)
    ELSE FirstError(Tail(errs))

check_typeopts(type_name, base_type, topts) ==
    LET topts_set == DOMAIN topts
        E(kind) == Err(kind, type_name, <<>>, -1, -1)
    IN  IF REQUIRED_TYPE_OPTIONS(base_type) \ topts_set # {}
            THEN E("Missing type option")
        ELSE IF topts_set \ ALLOWED_TYPE_OPTIONS(base_type) # {}
            THEN E("Unsupported type option")
        ELSE IF "maxv" \in topts_set /\ "minv" \in topts_set /\ topts["maxv"] < topts["minv"]
            THEN E("Bad value range")
        ELSE IF "maxf" \in topts_set /\ "minf" \in topts_set /\ topts["maxf"] < topts["minf"]
            THEN E("Bad value range")
        ELSE IF ("minv" \in topts_set \/ "maxv" \in topts_set) /\ "pattern" \in topts_set
            THEN E("String cannot have both pattern and size constraints")
        ELSE IF /\ "format" \in topts_set
                /\ topts["format"] # <<>>
                /\ \/ topts["format"] \notin DOMAIN VALID_FORMATS
                   \/ base_type # VALID_FORMATS[topts["format"]]
            THEN E("Unsupported format")
        ELSE IF "enum" \in topts_set /\ "pointer" \in topts_set
            THEN E("Type cannot be both Enum and Pointer")
        ELSE IF "and" \in topts_set /\ "or" \in topts_set
            THEN E("Unsupported union+intersection")
        ELSE NoError

\* TypeDefinition(*t) then list(t): the Fields column defaults to []
TypeDefinition(t) == IF Len(t) > Fields THEN t ELSE Append(t, <<>>)

\* [list(t) for t in schema_types]
Normalized(ts) == [i \in 1..Len(ts) |-> TypeDefinition(ts[i])]

\* the JSON-Schema and meta-schema validation of the document (external; it
\* rejects malformed shapes): each field tuple is an item or a general field
ShapeValid(ts) ==
    \A i \in 1..Len(ts) :
        \A k \in 1..Len(At(ts[i], Fields)) : Len(At(ts[i], Fields)[k]) \in {3, 5}

\* duplicates(seq) is non-empty
HasDuplicates(seq) == \E i, j \in 1..Len(seq) : i < j /\ seq[i] = seq[j]

First(S) == CHOOSE k \in S : \A m \in S : k <= m

\* bool(tf) of the walrus test: if tf := fo.get('tagid', None)
Truthy(tf) == tf # 0

\* core.py 129-148: the checks of one general field
FieldError(type_def, field) ==
    LET fs == At(type_def, Fields)
        o == ftopts_s2d(At(field, FieldOptions))
        fo == o.fo
        fto == o.fto
        minc == Get(fo, "minc", 1)
        maxc == Get(fo, "maxc", 1)
        ftype == At(field, FieldType)
        E(kind) == Err(kind, At(type_def, TypeName), At(field, FieldName), At(field, FieldID), -1)
        allowed == IF maxc # 1 THEN {"unique"} ELSE {}
    IN  FirstError(<<
            IF minc < 0 \/ maxc < 0 \/ (0 < maxc /\ maxc < minc)
                THEN E("bad multiplicity") ELSE NoError,
            IF /\ "tagid" \in DOMAIN fo
               /\ Truthy(fo["tagid"])
               /\ fo["tagid"] \notin {At(fs[k], FieldID) : k \in 1..Len(fs)}
                THEN Err("bad external tag", At(type_def, TypeName), At(field, FieldName), fo["tagid"], -1)
                ELSE NoError,
            IF is_builtin(ftype)
                THEN check_typeopts(At(type_def, TypeName) \o <<"/">> \o At(field, FieldName), ftype, fto)
            ELSE IF DOMAIN fto # {} /\ (DOMAIN fto) \ allowed # {}
                THEN E("cannot have Type options")
            ELSE NoError,
            IF "dir" \in DOMAIN fo /\ is_builtin(ftype) /\ ~has_fields(ftype)
                THEN E("cannot be dir") ELSE NoError
        >>)

\* the ordinal check applied to Record only
OrdinalErrorRecordOnly(type_def) ==
    LET fs == At(type_def, Fields)
        bad == {k \in 1..Len(fs) : At(fs[k], FieldID) # k}
    IN  IF At(type_def, BaseType) = Record /\ bad # {}
        THEN Err("Item tag error", At(type_def, TypeName),
                 At(fs[First(bad)], FieldName), At(fs[First(bad)], FieldID), First(bad))
        ELSE NoError

\* core.py 123: the first (f, n) with f[FieldID] != n
OrdinalError(type_def) ==
    LET fs == At(type_def, Fields)
        bad == {k \in 1..Len(fs) : At(fs[k], FieldID) # k}
    IN  IF At(type_def, BaseType) \in {Array, Record} /\ bad # {}
        THEN Err("Item tag error", At(type_def, TypeName),
                 At(fs[First(bad)], FieldName), At(fs[First(bad)], FieldID), First(bad))
        ELSE NoError

\* core.py 96-98: for fd in fields: if has_fields(fd[FieldType])
AnonymousError(type_def) ==
    LET fs == At(type_def, Fields)
        bad == {k \in 1..Len(fs) : has_fields(At(fs[k], FieldType))}
    IN  IF bad # {}
        THEN Err("Invalid type", At(type_def, TypeName),
                 At(fs[First(bad)], FieldName), At(fs[First(bad)], FieldID), -1)
        ELSE NoError

\* core.py 106-109
DuplicateError(type_def) ==
    LET fs == At(type_def, Fields)
        E(kind) == Err(kind, At(type_def, TypeName), <<>>, -1, -1)
    IN  IF HasDuplicates([k \in 1..Len(fs) |-> At(fs[k], FieldID)])
            THEN E("Duplicate fieldID")
        ELSE IF HasDuplicates([k \in 1..Len(fs) |-> At(fs[k], FieldName)])
            THEN E("Duplicate field name")
        ELSE NoError

\* core.py 116-118
LengthError(type_def) ==
    LET fs == At(type_def, Fields)
        flen == FIELD_LENGTH(At(type_def, BaseType))
        bad == {k \in 1..Len(fs) : Len(fs[k]) # flen}
    IN  IF bad # {}
        THEN Err("Bad field", At(type_def, TypeName), <<>>, At(fs[First(bad)], FieldID), -1)
        ELSE NoError

\* core.py 77-148: the body of the loop for one type definition; names are the
\* keys of the dict types built so far
TypeError(type_def, names) ==
    LET tname == At(type_def, TypeName)
        base == At(type_def, BaseType)
        fs == At(type_def, Fields)
        E(kind) == Err(kind, tname, <<>>, -1, -1)
        type_opts == topts_s2d(At(type_def, TypeOptions))
    IN  IF tname \in names THEN E("Colliding type definitions")
        ELSE IF is_builtin(tname) THEN E("Reserved type name")
        ELSE IF ~is_builtin(base) THEN E("Invalid base type")
        ELSE LET e1 == check_typeopts(tname, base, type_opts)
                 e2 == IF ("enum" \in DOMAIN type_opts \/ "pointer" \in DOMAIN type_opts) /\ fs # <<>>
                       THEN E("should not have defined fields") ELSE NoError
                 e3 == AnonymousError(type_def)
                 e4 == DuplicateError(type_def)
                 e5 == LengthError(type_def)
                 e6 == OrdinalError(type_def)
                 e7 == IF FIELD_LENGTH(base) > FieldDesc
                       THEN FirstError([k \in 1..Len(fs) |-> FieldError(type_def, fs[k])])
                       ELSE NoError
             IN  IF e1.kind # "" THEN e1
                 ELSE IF e2.kind # "" THEN e2
                 ELSE IF e3.kind # "" THEN e3
                 ELSE IF e4.kind # "" THEN e4
                 ELSE IF e5.kind # "" THEN e5
                 ELSE IF e6.kind # "" THEN e6
                 ELSE e7

\* core.py 75-148: the loop over schema_types, stopped by the first error
RECURSIVE LoopError(_, _)
LoopError(schema_types, i) ==
    IF i > Len(schema_types) THEN NoError
    ELSE LET e == TypeError(schema_types[i],
                            {At(schema_types[k], TypeName) : k \in 1..(i - 1)})
         IN  IF e.kind # "" THEN e ELSE LoopError(schema_types, i + 1)

\* the error check raises on the normalized types, NoError when it returns
CheckError(schema_types) ==
    IF ~ShapeValid(schema_types) THEN Err("ValidationError", <<>>, <<>>, -1, -1)
    ELSE LoopError(schema_types, 1)

\* a check that works on a copy: the caller's dict is left as it was
KeepTypes(h, a, ts) == h

\* core.py 64: schema['types'] = [...], an assignment into the caller's dict
StoreTypes(h, a, ts) == [h EXCEPT ![a].types = ts]

\* core.py 149: return schema
Returned(a) == a

(***************************************************************************)
(* The schemas handed to check                                             *)
(***************************************************************************)
\* the largest number of fields of a type, and the largest field ID
MaxFields == 2

tT == <<"T">>

tU == <<"U">>

fa == <<"a">>

fb == <<"b">>

\* the option string "&k"
TagOpt(k) == <<"&">> \o StrOf(k)

\* the lists of at most MaxFields general fields: field k has an ID of
\* 0..MaxFields and the name fk, and is plain, has a tagid option or is of
\* an anonymous type
GenFieldLists ==
    UNION {{[k \in 1..len |-> <<c[k][1], <<"f">> \o StrOf(k), c[k][2][1], c[k][2][2], <<>>>>] :
               c \in [1..len -> (0..MaxFields)
                                \X {<<String, <<>>>>, <<String, <<TagOpt(0)>>>>,
                                    <<String, <<TagOpt(MaxFields)>>>>, <<Record, <<>>>>}]} :
           len \in 0..MaxFields}

\* the lists of at most MaxFields items
ItemLists ==
    UNION {{[k \in 1..len |-> <<c[k][1], <<"f">> \o StrOf(k), c[k][2]>>] :
               c \in [1..len -> (0..MaxFields) \X {<<>>, Record}]} : len \in 0..MaxFields}

\* all lists of at most k elements of S
RECURSIVE ListsUpTo(_, _)
ListsUpTo(S, k) ==
    IF k = 0 THEN {<<>>}
    ELSE LET shorter == ListsUpTo(S, k - 1)
         IN  shorter \cup {Append(l, x) : l \in {m \in shorter : Len(m) = k - 1}, x \in S}

\* one type with fields: general fields under the structured base types,
\* items under Enumerated and Record, and two fields of one name
FieldedTypes ==
    {<<tT, bt, <<>>, <<>>, fs>> : bt \in {Record, Array, Choice}, fs \in GenFieldLists}
    \cup
    {<<tT, bt, <<>>, <<>>, fs>> : bt \in {Enumerated, Record}, fs \in ItemLists}
    \cup
    {<<tT, Record, <<>>, <<>>, << <<1, fa, String, <<>>, <<>>>>, <<2, fa, String, <<>>, <<>>>> >> >>}

\* types without the Fields column (4-tuples) and with an empty one
PlainTypes ==
    {<<nm, bt, opts, <<>>>> :
        nm \in {tT, tU, String}, bt \in {String, Record, tU},
        opts \in {<<>>, <<<<"{", "2">>, <<"}", "1">>>>, <<<<"%", "x">>, <<"{", "1">>>>, <<<<"=">>>>}}
    \cup
    {<<nm, bt, <<>>, <<>>, <<>>>> : nm \in {tT, tU}, bt \in {String, Enumerated}}

CheckInputs ==
    {<<t>> : t \in FieldedTypes \cup PlainTypes}
    \cup {<<t, u>> : t \in PlainTypes, u \in PlainTypes}

\* check(schema): core.py 56-149
Check ==
    /\ cpc = "start"
    /\ heap' = StoreTypes(heap, arg, Normalized(heap[arg].types))
    /\ error' = CheckError(Normalized(heap[arg].types))
    /\ result' = IF CheckError(Normalized(heap[arg].types)).kind = "" THEN Returned(arg) ELSE 0
    /\ cpc' = "done"
    /\ UNCHANGED <<arg, given, analyzeVars, jidlVars>>

(***************************************************************************)
(* core.py: analyze.  A schema is a record with the key types and, when    *)
(* present, the keys info and meta; the lists of the result are given as   *)
(* sets, their order being that of a Python set.                           *)
(***************************************************************************)
\* the type names the fields of a type definition refer to
Refs(td) ==
    {At(At(td, Fields)[k], FieldType) :
        k \in {i \in 1..Len(At(td, Fields)) : Len(At(td, Fields)[i]) > FieldType}}
    \ CORE_TYPES

\* utils.py build_deps(schema): each declared type name with the names it
\* refers to directly (modelled from the specification, section 4.3)
build_deps(schema) ==
    [nm \in {At(schema.types[i], TypeName) : i \in 1..Len(schema.types)} |->
        UNION {Refs(schema.types[i]) :
                 i \in {j \in 1..Len(schema.types) : At(schema.types[j], TypeName) = nm}}]

\* core.py 154-155: info = schema.get('info', {}); roots = info.get('roots',
\* info.get('exports', []))
Roots(schema) ==
    Get(Get(schema, "info", EmptyDict), "roots",
        Get(Get(schema, "info", EmptyDict), "exports", <<>>))

\* set(l) of a list
SetOf(l) == {l[i] : i \in 1..Len(l)}

\* core.py 157-158: refs = set(dep_refs) | set(roots)
AllRefs(items, roots) == UNION {items[d] : d \in DOMAIN items} \cup SetOf(roots)

\* core.py 159-163
Analysis(items, roots) ==
    [unreferenced |-> DOMAIN items \ AllRefs(items, roots),
     undefined |-> AllRefs(items, roots) \ DOMAIN items,
     cycles |-> <<>>]

\* analyze(schema): core.py 152-163
Analyze ==
    /\ apc = "start"
    /\ aresult' = Analysis(build_deps(aschema), Roots(aschema))
    /\ apc' = "done"
    /\ UNCHANGED <<aschema, checkVars, jidlVars>>

(***************************************************************************)
(* utils.py: the type-string and field-definition converters and the       *)
(* deferred cleanup pass (not part of the source tree at hand; modelled    *)
(* from the specification, sections 4.4 and 6, as mutual inverses on the   *)
(* schemas of this model)                                                  *)
(***************************************************************************)
\* [-$\w] and [-:$\w]
TypeNameChars == Word \cup {"-", "$"}

FieldNameChars == Word \cup {"-", ":", "$"}

sID == <<".", "I", "D">>

sTagId == <<"(", "T", "a", "g", "I", "d", "[">>

sOptional == <<"o", "p", "t", "i", "o", "n", "a", "l">>

\* jadn2typestr(BaseType, TypeOptions): the type name, ".ID" for the id option
jadn2typestr(tname, topts) == tname \o (IF HasIdOption(topts) THEN sID ELSE <<>>)

\* typestr2jadn(typestr): the type name, ".ID" as the id type option and
\* "(TagId[x])" as the field option "&x"
typestr2jadn(typestr) ==
    Let(RunEnd(typestr, 1, TypeNameChars), LAMBDA i1 :
    Let(IF StartsAt(typestr, i1, sID) THEN i1 + 3 ELSE i1, LAMBDA i2 :
        [btype |-> SubSeq(typestr, 1, i1 - 1),
         topts |-> IF i2 > i1 THEN <<<<"=">>>> ELSE <<>>,
         fo |-> IF StartsAt(typestr, i2, sTagId)
                THEN <<<<"&">> \o SubSeq(typestr, i2 + 7, RunEnd(typestr, i2 + 7, FieldNameChars) - 1)>>
                ELSE <<>>]))

\* the multiplicity string of a field: "1", "0..1", "m..n", "m..*"
Multiplicity(minc, maxc) ==
    IF minc = 1 /\ maxc = 1 THEN <<"1">>
    ELSE StrOf(minc) \o <<".", ".">> \o (IF maxc = 0 THEN <<"*">> ELSE StrOf(maxc))

\* the positions k of fs whose column col holds x
Holding(fs, col, x) == {k \in 1..Len(fs) : At(fs[k], col) = x}

\* "(TagId[name])" for the field a tagid option designates
TagSuffix(fs, fo) ==
    IF "tagid" \notin DOMAIN fo THEN <<>>
    ELSE Let(Holding(fs, FieldID, fo["tagid"]), LAMBDA hit :
         sTagId
         \o (IF hit # {} THEN At(fs[First(hit)], FieldName) ELSE StrOf(fo["tagid"]))
         \o <<"]", ")">>)

\* jadn2fielddef(fd, td) -> (fname, fdef, fmult, fdesc)
jadn2fielddef(fd, td) ==
    Let(At(td, BaseType) = Array \/ HasIdOption(At(td, TypeOptions)), LAMBDA idtype :
    Let(IF idtype THEN At(fd, FieldName) \o <<":", ":", " ">> ELSE <<>>, LAMBDA prefix :
        IF At(td, BaseType) = Enumerated
        THEN [fname |-> IF idtype THEN <<>> ELSE At(fd, ItemValue),
              fdef |-> <<>>, fmult |-> <<>>,
              fdesc |-> prefix \o At(fd, ItemDesc)]
        ELSE Let(ftopts_s2d(At(fd, FieldOptions)).fo, LAMBDA fo :
             [fname |-> (IF idtype THEN <<>> ELSE At(fd, FieldName))
                        \o (IF "dir" \in DOMAIN fo THEN <<"/">> ELSE <<>>),
              fdef |-> jadn2typestr(At(fd, FieldType) \o TagSuffix(At(td, Fields), fo),
                                    SelectOpts(At(fd, FieldOptions), FALSE)),
              fmult |-> Multiplicity(Get(fo, "minc", 1), Get(fo, "maxc", 1)),
              fdesc |-> prefix \o At(fd, FieldDesc)])))

\* the positions of s where the literal lit occurs
Occurrences(s, lit) == {i \in 1..Len(s) : StartsAt(s, i, lit)}

\* the options "[m" and "]n" of a multiplicity string
RangeOpts(fmult) ==
    Let(Occurrences(fmult, <<".", ".">>), LAMBDA dots :
    Let(IF dots = {} THEN fmult ELSE SubSeq(fmult, 1, First(dots) - 1), LAMBDA lo :
    Let(IF dots = {} THEN fmult ELSE From(fmult, First(dots) + 2), LAMBDA hi :
        IF fmult = <<>> THEN <<>>
        ELSE (IF lo # <<"1">> THEN <<<<"[">> \o lo>> ELSE <<>>)
             \o (IF hi = <<"*">> THEN <<<<"]", "0">>>>
                 ELSE IF hi # <<"1">> THEN <<<<"]">> \o hi>>
                 ELSE <<>>))))

\* fielddef2jadn(fid, fname, fdef, fmult, fdesc): an item when fdef is empty,
\* a general field otherwise; a field without a name column takes its name
\* from the "name:: " prefix of the description
fielddef2jadn(fid, fname, fdef, fmult, fdesc) ==
    Let(Occurrences(fdesc, <<":", ":">>), LAMBDA c :
    Let(fname # <<>> \/ c = {}, LAMBDA named :
    Let(IF named THEN fname ELSE SubSeq(fdesc, 1, First(c) - 1), LAMBDA nm :
    Let(IF named THEN fdesc ELSE LStrip(From(fdesc, First(c) + 2)), LAMBDA desc :
    Let(nm # <<>> /\ nm[Len(nm)] = "/", LAMBDA isdir :
    Let(typestr2jadn(fdef), LAMBDA t :
        IF fdef = <<>> THEN <<fid, nm, desc>>
        ELSE <<fid,
               IF isdir THEN SubSeq(nm, 1, Len(nm) - 1) ELSE nm,
               t.btype,
               t.fo \o RangeOpts(fmult) \o (IF isdir THEN <<<<"<">>>> ELSE <<>>) \o t.topts,
               desc>>))))))

\* cleanup_tagid(fields): a tagid option that names a field is replaced by
\* the one that holds the field's ID
ResolveTag(fs, o) ==
    Let(Holding(fs, FieldName, Tail(o)), LAMBDA hit :
        IF o[1] = "&" /\ ~IsNumeral(Tail(o)) /\ hit # {}
        THEN <<"&">> \o StrOf(At(fs[First(hit)], FieldID))
        ELSE o)

cleanup_tagid(fs) ==
    [k \in 1..Len(fs) |->
        IF Len(fs[k]) > FieldOptions
        THEN [fs[k] EXCEPT ![FieldOptions + 1] = [x \in 1..Len(@) |-> ResolveTag(fs, @[x])]]
        ELSE fs[k]]

(***************************************************************************)
(* jidl.py: line2jadn                                                      *)
(***************************************************************************)
\* the result of line2jadn: the pair (t, v), or the exception raised as t
Parsed(t, v) == [t |-> t, v |-> v]

\* the groups of a match; ok is FALSE when the pattern does not match.  A
\* group that did not take part in the match is '' like an empty one.
Groups(g1, g2, g3, range, desc) ==
    [ok |-> TRUE, g1 |-> g1, g2 |-> g2, g3 |-> g3, range |-> range, desc |-> desc]

NoMatch == [ok |-> FALSE, g1 |-> <<>>, g2 |-> <<>>, g3 |-> <<>>, range |-> <<>>, desc |-> <<>>]

\* p_desc = \s*(?:\/\/\s*(.*?)\s*)?  followed by $, tried at position j
DescMatches(line, j) ==
    Let(RunEnd(line, j, Space), LAMBDA k :
        k > Len(line) \/ StartsAt(line, k, <<"/", "/">>))

\* the description group (.*?) of p_desc and of p_tdesc
DescGroup(line, j) ==
    Let(RunEnd(line, j, Space), LAMBDA k :
        IF k > Len(line) THEN <<>> ELSE Strip(From(line, k + 2)))

\* ,? at position j
SkipComma(line, j) == IF j <= Len(line) /\ line[j] = "," THEN j + 1 ELSE j

\* p_meta = ^\s*([-\w]+):\s*(.+?)\s*$
MetaMatch(line) ==
    Let(RunEnd(line, 1, Space), LAMBDA i1 :
    Let(RunEnd(line, i1, Word \cup {"-"}), LAMBDA i2 :
    Let(From(line, i2 + 1), LAMBDA rest :
        IF i2 > i1 /\ i2 <= Len(line) /\ line[i2] = ":" /\ rest # <<>>
        THEN Groups(SubSeq(line, i1, i2 - 1),
                    IF Strip(rest) = <<>> THEN <<rest[Len(rest)]>> ELSE Strip(rest),
                    <<>>, <<>>, <<>>)
        ELSE NoMatch)))

\* \s*\{? at position j
SkipBrace(line, j) ==
    Let(RunEnd(line, j, Space), LAMBDA k :
        IF k <= Len(line) /\ line[k] = "{" THEN k + 1 ELSE k)

\* \s*\{? p_tdesc $ at position j, p_tdesc = (?:\s*\/\/\s*(.*?)\s*)?
TypeTail(line, j) ==
    Let(SkipBrace(line, j), LAMBDA b :
        b > Len(line) \/ StartsAt(line, RunEnd(line, b, Space), <<"/", "/">>))

\* p_type = ^\s*([-$\w]+)\s*=\s*(.*?)\s*\{?(?:\s*\/\/\s*(.*?)\s*)?$
TypeMatch(line) ==
    Let(RunEnd(line, 1, Space), LAMBDA i1 :
    Let(RunEnd(line, i1, TypeNameChars), LAMBDA i2 :
    Let(RunEnd(line, i2, Space), LAMBDA i3 :
        IF i2 > i1 /\ i3 <= Len(line) /\ line[i3] = "="
        THEN Let(RunEnd(line, i3 + 1, Space), LAMBDA i4 :
             Let(LazyEnd(line, i4, LAMBDA j : TypeTail(line, j)), LAMBDA j4 :
                 Groups(SubSeq(line, i1, i2 - 1), SubSeq(line, i4, j4 - 1),
                        DescGroup(line, SkipBrace(line, j4)), <<>>, <<>>)))
        ELSE NoMatch)))

\* p_range = \s*(?:\[([.*\d]+)\]|(optional))?,?  at position j: the position
\* after the multiplicity and the range it denotes ('' when absent)
RangeMatch(line, j) ==
    Let(RunEnd(line, j, Space), LAMBDA j2 :
    Let(RunEnd(line, j2 + 1, Digits \cup {".", "*"}), LAMBDA r :
        IF /\ j2 <= Len(line) /\ line[j2] = "["
           /\ r > j2 + 1 /\ r <= Len(line) /\ line[r] = "]"
            THEN [end |-> r + 1, range |-> SubSeq(line, j2 + 1, r - 1)]
        ELSE IF StartsAt(line, j2, sOptional)
            THEN [end |-> j2 + 8, range |-> <<"0", ".", ".", "1">>]
        ELSE [end |-> j2, range |-> <<>>]))

\* what follows the field definition: ,? p_range, before p_desc $
FieldTail(line, j) == SkipComma(line, RangeMatch(line, SkipComma(line, j)).end)

\* pn = p_fname = \s+([-:$\w]+\/?)?  at position i2, or pn = () : the start
\* and the end of the name group, 0 when pn does not match
NameMatch(line, i2, positional) ==
    Let(RunEnd(line, i2, Space), LAMBDA w :
    Let(RunEnd(line, w, FieldNameChars), LAMBDA e :
        IF positional THEN <<i2, i2>>
        ELSE IF w = i2 THEN <<0, 0>>
        ELSE IF e > w /\ e <= Len(line) /\ line[e] = "/" THEN <<w, e + 1>>
        ELSE <<w, e>>))

\* ^ p_id pn p_fstr p_range p_desc $  with pn = p_fname, or () for a type
\* whose fields have no name column
FieldMatch(line, positional) ==
    Let(RunEnd(line, 1, Space), LAMBDA i1 :
    Let(RunEnd(line, i1, Digits), LAMBDA i2 :
    Let(NameMatch(line, i2, positional), LAMBDA nm :
        IF i2 > i1 /\ nm[1] > 0
        THEN Let(RunEnd(line, nm[2], Space), LAMBDA i4 :
             Let(LazyEnd(line, i4, LAMBDA j : DescMatches(line, FieldTail(line, j))), LAMBDA j4 :
                 Groups(SubSeq(line, i1, i2 - 1),
                        SubSeq(line, nm[1], nm[2] - 1),
                        SubSeq(line, i4, j4 - 1),
                        RangeMatch(line, SkipComma(line, j4)).range,
                        DescGroup(line, FieldTail(line, j4)))))
        ELSE NoMatch)))

\* an item pattern whose value group is one word: ^ p_id \s*([-$\w]+),? p_desc $
ItemMatchOneWord(line) ==
    Let(RunEnd(line, 1, Space), LAMBDA i1 :
    Let(RunEnd(line, i1, Digits), LAMBDA i2 :
    Let(RunEnd(line, i2, Space), LAMBDA i3 :
    Let(RunEnd(line, i3, TypeNameChars), LAMBDA j3 :
        IF i2 > i1 /\ j3 > i3 /\ DescMatches(line, SkipComma(line, j3))
        THEN Groups(SubSeq(line, i1, i2 - 1), SubSeq(line, i3, j3 - 1), <<>>, <<>>,
                    DescGroup(line, SkipComma(line, j3)))
        ELSE NoMatch))))

\* ^ p_id p_fstr p_desc $ , the pattern of an Enumerated item
ItemMatch(line) ==
    Let(RunEnd(line, 1, Space), LAMBDA i1 :
    Let(RunEnd(line, i1, Digits), LAMBDA i2 :
        IF i2 > i1
        THEN Let(RunEnd(line, i2, Space), LAMBDA i3 :
             Let(LazyEnd(line, i3, LAMBDA j : DescMatches(line, SkipComma(line, j))), LAMBDA j3 :
                 Groups(SubSeq(line, i1, i2 - 1), SubSeq(line, i3, j3 - 1), <<>>, <<>>,
                        DescGroup(line, SkipComma(line, j3)))))
        ELSE NoMatch))

\* jidl.py 82-85: the type definition of a matching type line
TypeParsed(tm, t) ==
    IF t.fo # <<>> THEN Parsed("AssertionError", <<>>)
    ELSE Parsed("T", <<tm.g1, t.btype, t.topts, tm.g3, <<>>>>)

\* jidl.py 92-104: the pattern of the fields of tdef applied to the line
FieldOrItem(line, tdef) ==
    IF At(tdef, BaseType) = Enumerated THEN ItemMatch(line)
    ELSE FieldMatch(line, HasIdOption(At(tdef, TypeOptions)) \/ At(tdef, BaseType) = Array)

\* line2jadn(line, tdef); tdef = <<>> stands for None
line2jadn(line, tdef) ==
    IF line = <<>> THEN Parsed("", <<>>)
    ELSE Let(MetaMatch(line), LAMBDA mm :
         IF mm.ok THEN Parsed("M", <<mm.g1, mm.g2>>)
         ELSE Let(TypeMatch(line), LAMBDA tm :
              IF tm.ok THEN TypeParsed(tm, typestr2jadn(tm.g2))
              ELSE IF tdef = <<>> THEN Parsed("TypeError", <<>>)
              ELSE Let(FieldOrItem(line, tdef), LAMBDA m :
                   IF m.ok
                       THEN Parsed("F", fielddef2jadn(IntOf(m.g1), m.g2, m.g3, m.range, m.desc))
                   ELSE IF Strip(line) \notin {<<>>, <<"}">>}
                       THEN Parsed("ValueError", <<>>)
                   ELSE Parsed("", <<>>))))

(***************************************************************************)
(* json.dumps / json.loads on the meta values of this model: strings,      *)
(* non-negative integers and lists of strings                              *)
(***************************************************************************)
\* a JSON value of kind k: "str", "int" or "list"
Json(k, v) == [k |-> k, v |-> v]

Quoted(x) == <<"\"">> \o x \o <<"\"">>

RECURSIVE JoinQuoted(_)
JoinQuoted(l) ==
    IF l = <<>> THEN <<>>
    ELSE IF Len(l) = 1 THEN Quoted(l[1])
    ELSE Quoted(l[1]) \o <<",", " ">> \o JoinQuoted(Tail(l))

json_dumps(j) ==
    IF j.k = "str" THEN Quoted(j.v)
    ELSE IF j.k = "int" THEN StrOf(j.v)
    ELSE <<"[">> \o JoinQuoted(j.v) \o <<"]">>

IsQuoted(x) ==
    /\ Len(x) >= 2 /\ x[1] = "\"" /\ x[Len(x)] = "\""
    /\ \A i \in 2..(Len(x) - 1) : x[i] # "\""

\* the items of the text of a JSON array: split at commas, blanks dropped
RECURSIVE SplitItems(_)
SplitItems(x) ==
    Let(Occurrences(x, <<",">>), LAMBDA commas :
        IF commas = {} THEN <<Strip(x)>>
        ELSE <<Strip(SubSeq(x, 1, First(commas) - 1))>> \o SplitItems(From(x, First(commas) + 1)))

\* the value of the text of a JSON array of strings
JsonArray(inner) ==
    IF Strip(inner) = <<>> THEN [ok |-> TRUE, val |-> Json("list", <<>>)]
    ELSE Let(SplitItems(inner), LAMBDA items :
         IF \A i \in 1..Len(items) : IsQuoted(items[i])
         THEN [ok |-> TRUE,
               val |-> Json("list", [i \in 1..Len(items) |-> SubSeq(items[i], 2, Len(items[i]) - 1)])]
         ELSE [ok |-> FALSE, val |-> Json("int", 0)])

\* json.loads(text): ok is FALSE for a JSONDecodeError
json_loads(text) ==
    IF IsQuoted(text) THEN [ok |-> TRUE, val |-> Json("str", SubSeq(text, 2, Len(text) - 1))]
    ELSE IF IsNumeral(text) THEN [ok |-> TRUE, val |-> Json("int", IntOf(text))]
    ELSE IF Len(text) >= 2 /\ text[1] = "[" /\ text[Len(text)] = "]"
        THEN JsonArray(SubSeq(text, 2, Len(text) - 1))
    ELSE [ok |-> FALSE, val |-> Json("int", 0)]

(***************************************************************************)
(* jidl.py: jidl_dumps.  A schema is [meta |-> <<key, value>> pairs in     *)
(* dict order (<<>>: no meta), types |-> type definitions].  The text is   *)
(* given as the sequence of its lines, doc.splitlines().                   *)
(***************************************************************************)
\* the column widths w
W_meta == 12

W_id == 4

W_name == 12

W_type == 35

kTitle == <<"t", "i", "t", "l", "e">>

kPackage == <<"p", "a", "c", "k", "a", "g", "e">>

kRoots == <<"r", "o", "o", "t", "s">>

\* the preferred order of the meta keys (the keys this model uses)
META_ORDER == <<kTitle, kPackage, kRoots>>

\* mlist + list(set(meta) - set(mlist)): the pairs of meta in display order
RECURSIVE Ordered(_, _)
Ordered(m, keys) ==
    IF keys = <<>> THEN <<>>
    ELSE SelectSeq(m, LAMBDA kv : kv[1] = Head(keys)) \o Ordered(m, Tail(keys))

MetaDisplay(m) ==
    Ordered(m, META_ORDER)
    \o SelectSeq(m, LAMBDA kv : \A i \in 1..Len(META_ORDER) : META_ORDER[i] # kv[1])

\* jidl.py 32
MetaLine(kv) == PadLeft(kv[1], W_meta) \o <<":", " ">> \o json_dumps(kv[2])

\* '// ' + desc if desc else ''
Commented(desc) == IF desc # <<>> THEN <<"/", "/", " ">> \o desc ELSE <<>>

\* jidl.py 36-38: the blank line and the header line of a type
TypeLines(td) ==
    << <<>>,
       PadRight(At(td, TypeName) \o <<" ", "=", " ">>
                  \o jadn2typestr(At(td, BaseType), At(td, TypeOptions)),
                W_id + W_name + W_type)
       \o Commented(At(td, TypeDesc)) >>

\* jidl.py 47: the field definition with its multiplicity
WithMultiplicity(fdef, fmult) ==
    fdef \o (IF fmult = <<"1">> THEN <<>>
             ELSE IF fmult = <<"0", ".", ".", "1">> THEN <<" ">> \o sOptional
             ELSE <<" ", "[">> \o fmult \o <<"]">>)

\* jidl.py 39-52: the line of one field or item
FieldLine(fd, td) ==
    Let(At(td, BaseType) = Array \/ HasIdOption(At(td, TypeOptions)), LAMBDA idt :
    Let(jadn2fielddef(fd, td), LAMBDA d :
        IF At(td, BaseType) = Enumerated
        THEN PadRight(PadLeft(StrOf(At(fd, ItemID)), W_id) \o <<" ">> \o d.fname,
                      W_id + W_name + 2)
             \o Commented(d.fdesc)
        ELSE PadRight(PadLeft(StrOf(At(fd, FieldID)), W_id) \o <<" ">>
                        \o PadRight(d.fname, IF idt THEN 0 ELSE W_name) \o <<" ">>
                        \o WithMultiplicity(d.fdef, d.fmult),
                      IF idt THEN W_id + W_type ELSE W_id + W_name + W_type)
             \o Commented(d.fdesc)))

RECURSIVE Flatten(_)
Flatten(ll) == IF ll = <<>> THEN <<>> ELSE Head(ll) \o Flatten(Tail(ll))

\* jidl.py 35-52: the lines of one type
TypeBlock(td) ==
    TypeLines(td)
    \o (IF Len(td) > Fields
        THEN [k \in 1..Len(At(td, Fields)) |-> FieldLine(At(td, Fields)[k], td)]
        ELSE <<>>)

jidl_dumps(schema) ==
    Let(MetaDisplay(schema.meta), LAMBDA ml :
        [i \in 1..Len(ml) |-> MetaLine(ml[i])]
        \o Flatten([i \in 1..Len(schema.types) |-> TypeBlock(schema.types[i])]))

(***************************************************************************)
(* jidl.py: jidl_loads, one action per iteration of the loop over the      *)
(* lines and one for the return                                            *)
(***************************************************************************)
\* a loop without the test of line 116: every line is parsed
NeverSkipped(line) == FALSE

\* jidl.py 116: if line
Skipped(line) == line = <<>>

\* jidl.py 120: elif fields -- fields is neither None nor an empty list
Truth(fieldsRef, ts) ==
    fieldsRef = "ref" /\ At(ts[Len(ts)], Fields) # <<>>

\* meta.update({key: val})
Update(m, key, val) ==
    IF \E i \in 1..Len(m) : m[i][1] = key
    THEN [i \in 1..Len(m) |-> IF m[i][1] = key THEN <<key, val>> ELSE m[i]]
    ELSE Append(m, <<key, val>>)

\* types with fs as the Fields of the last type
WithFields(ts, fs) == [ts EXCEPT ![Len(ts)][Fields + 1] = fs]

\* jidl.py 128: the dict returned; an empty meta stands for a dict without
\* the key meta
Loaded(m, ts) == [meta |-> m, types |-> ts]

\* an exception leaves the loop
Raise(e) ==
    /\ jpc' = e
    /\ UNCHANGED <<meta, types, fields, cleanups>>

\* jidl.py 118-119: fields.append(v)
AppendField(v) ==
    IF fields = "None" THEN Raise("AttributeError")
    ELSE /\ types' = WithFields(types, Append(At(types[Len(types)], Fields), v))
         /\ jpc' = "loop"
         /\ UNCHANGED <<meta, fields, cleanups>>

\* jidl.py 120-127 for a line that is no field: the cleanup pass on a
\* non-empty accumulator, then the meta item or the new type
Dispatch(r, closing, j) ==
    IF r.t = "M" /\ ~j.ok THEN Raise("JSONDecodeError")
    ELSE
        /\ jpc' = "loop"
        /\ meta' = IF r.t = "M" THEN Update(meta, r.v[1], j.val) ELSE meta
        /\ types' = Let(IF closing
                        THEN WithFields(types, cleanup_tagid(At(types[Len(types)], Fields)))
                        ELSE types,
                        LAMBDA ts : IF r.t = "T" THEN Append(ts, r.v) ELSE ts)
        /\ fields' = IF r.t = "T" THEN "ref"
                     ELSE IF closing THEN "None"
                     ELSE fields
        /\ cleanups' = Let(IF closing THEN [cleanups EXCEPT ![Len(types)] = @ + 1] ELSE cleanups,
                           LAMBDA c : IF r.t = "T" THEN Append(c, 0) ELSE c)

\* jidl.py 117-127: the body of the loop for a non-empty line parsed as r
Step(r) ==
    IF r.t \in {"TypeError", "ValueError", "AssertionError"} THEN Raise(r.t)
    ELSE IF r.t = "F" THEN AppendField(r.v)
    ELSE Dispatch(r, Truth(fields, types),
                  IF r.t = "M" THEN json_loads(r.v[2]) ELSE [ok |-> TRUE, val |-> Json("int", 0)])

\* one iteration of the loop of jidl_loads: jidl.py 115-127
LoadLine ==
    /\ jpc = "loop"
    /\ n < Len(doc)
    /\ n' = n + 1
    /\ IF Skipped(doc[n + 1])
       THEN UNCHANGED <<meta, types, fields, cleanups, jpc>>
       ELSE Step(line2jadn(doc[n + 1], IF types # <<>> THEN types[Len(types)] ELSE <<>>))
    /\ UNCHANGED <<source, doc, loaded, checkVars, analyzeVars>>

\* jidl.py 128: return
Return ==
    /\ jpc = "loop"
    /\ n = Len(doc)
    /\ loaded' = Loaded(meta, types)
    /\ jpc' = "returned"
    /\ UNCHANGED <<source, doc, n, meta, types, fields, cleanups, checkVars, analyzeVars>>

(***************************************************************************)
(* The documents handed to jidl_loads: the text jidl_dumps produces for a  *)
(* checked schema, and every text of at most MaxLines lines of HandLines   *)
(***************************************************************************)
\* the largest number of types of a dumped schema
MaxTypes == 2

\* the largest number of lines of a hand-written document
MaxLines == 4

tA == <<"A">>

sD == <<"d">>

RoundTripTypes ==
    {<<tT, Record, <<>>, sD, << <<1, fa, String, <<>>, <<>>>>, <<2, fb, String, <<<<"[", "0">>>>, sD>> >> >>,
     <<tU, Choice, <<>>, <<>>, << <<1, fa, String, <<>>, <<>>>>, <<2, fb, String, <<TagOpt(1)>>, <<>>>> >> >>,
     <<<<"E">>, Enumerated, <<>>, <<>>, << <<1, <<"R">>, sD>>, <<2, <<"G">>, <<>>>> >> >>,
     <<tA, Array, <<>>, <<>>, << <<1, fa, String, <<>>, sD>> >> >>,
     <<<<"N">>, String, <<>>, sD, <<>>>>}

RoundTripMetas ==
    {<<>>,
     << <<kPackage, Json("str", <<"p">>)>> >>,
     << <<kRoots, Json("list", <<tT, <<"E">>>>)>>, <<kTitle, Json("str", <<"x">>)>>, <<<<"v">>, Json("int", 1)>> >>}

RoundTripSchemas ==
    {s \in {[meta |-> m, types |-> ts] :
                m \in RoundTripMetas,
                ts \in ListsUpTo(RoundTripTypes, MaxTypes) \ {<<>>}} :
        /\ \A i, j \in 1..Len(s.types) : i # j => At(s.types[i], TypeName) # At(s.types[j], TypeName)
        /\ CheckError(Normalized(s.types)).kind = ""}

NoSchema == [meta |-> <<>>, types |-> <<>>]

\* 1 a String optional // d
hField == <<"1", " ", "a", " ">> \o String \o <<" ">> \o sOptional \o <<" ", "/", "/", " ", "d">>

\* 2 R // d
hItem == <<"2", " ", "R", " ", "/", "/", " ", "d">>

\* the lines of a hand-written document: a meta line (p: "x"), the type lines
\* "T = Record" and "E = Enumerated", a field line, an item line, a
\* whitespace-only line, the empty line, a brace and a line of no grammar
HandLines ==
    {<<"p", ":", " ", "\"", "x", "\"">>,
     <<"T", " ", "=", " ">> \o Record,
     <<"E", " ", "=", " ">> \o Enumerated,
     hField, hItem, <<" ">>, <<>>, <<"}">>, <<"?">>}

(***************************************************************************)
(* The schemas handed to analyze                                           *)
(***************************************************************************)
tB == <<"B">>

tC == <<"C">>

\* A refers to ref; B and C refer to nothing
TypesOf(ref, names) ==
    << <<tA, Record, <<>>, <<>>, << <<1, fa, ref, <<>>, <<>>>> >> >> >>
    \o [i \in 1..Len(names) |-> <<names[i], String, <<>>, <<>>, <<>>>>]

AnalyzeTypes ==
    {TypesOf(ref, names) : ref \in {tB, tU, String}, names \in {<<>>, <<tB>>, <<tC>>, <<tB, tC>>}}

\* an info or meta record
RootDicts ==
    {EmptyDict, [roots |-> <<tA>>], [roots |-> <<tC>>], [roots |-> <<tU>>],
     [exports |-> <<tA>>], [roots |-> <<tC>>, exports |-> <<tA>>]}

AnalyzeInputs ==
    {[types |-> ts] : ts \in AnalyzeTypes}
    \cup {[types |-> ts, info |-> d] : ts \in AnalyzeTypes, d \in RootDicts}
    \cup {[types |-> ts, meta |-> d] : ts \in AnalyzeTypes, d \in RootDicts}
    \cup {[types |-> ts, info |-> d, meta |-> e] : ts \in AnalyzeTypes, d \in RootDicts, e \in RootDicts}

NoAnalysis == [unreferenced |-> {}, undefined |-> {}, cycles |-> <<>>]

(***************************************************************************)
(* The specifications: one per entry point of the package                  *)
(***************************************************************************)
\* check is called on a schema of CheckInputs, held by the caller as heap[arg]
InitCheck ==
    /\ given \in CheckInputs
    /\ heap = [o \in {1} |-> [meta |-> <<>>, types |-> given]]
    /\ arg = 1
    /\ result = 0
    /\ error = NoError
    /\ cpc = "start"
    /\ aschema = [types |-> <<>>]
    /\ aresult = NoAnalysis
    /\ apc = "idle"
    /\ source = NoSchema
    /\ doc = <<>>
    /\ n = 0
    /\ meta = <<>>
    /\ types = <<>>
    /\ fields = "None"
    /\ cleanups = <<>>
    /\ loaded = NoSchema
    /\ jpc = "idle"

SpecCheck == InitCheck /\ [][Check]_vars

\* analyze is called on a schema of AnalyzeInputs
InitAnalyze ==
    /\ aschema \in AnalyzeInputs
    /\ aresult = NoAnalysis
    /\ apc = "start"
    /\ given = <<>>
    /\ heap = <<>>
    /\ arg = 0
    /\ result = 0
    /\ error = NoError
    /\ cpc = "idle"
    /\ source = NoSchema
    /\ doc = <<>>
    /\ n = 0
    /\ meta = <<>>
    /\ types = <<>>
    /\ fields = "None"
    /\ cleanups = <<>>
    /\ loaded = NoSchema
    /\ jpc = "idle"

SpecAnalyze == InitAnalyze /\ [][Analyze]_vars

\* jidl_loads is handed the text jidl_dumps produces for a checked schema, or
\* a hand-written text; check and analyze are not called
InitJidl ==
    /\ \/ /\ source \in RoundTripSchemas
          /\ doc = jidl_dumps(source)
       \/ /\ source = NoSchema
          /\ doc \in ListsUpTo(HandLines, MaxLines)
    /\ n = 0
    /\ meta = <<>>
    /\ types = <<>>
    /\ fields = "None"
    /\ cleanups = <<>>
    /\ loaded = NoSchema
    /\ jpc = "loop"
    /\ given = <<>>
    /\ heap = <<>>
    /\ arg = 0
    /\ result = 0
    /\ error = NoError
    /\ cpc = "idle"
    /\ aschema = [types |-> <<>>]
    /\ aresult = NoAnalysis
    /\ apc = "idle"

NextJidl == LoadLine \/ Return

SpecJidl == InitJidl /\ [][NextJidl]_vars

(***************************************************************************)
(* Properties of check (SpecCheck)                                         *)
(***************************************************************************)
\* C1, as stated: check treats its argument as immutable input -- after the
\* call the value under the caller's types key is what it was before, and on
\* success the schema returned is another object than the argument.
C1_ArgumentImmutable ==
    cpc = "done" =>
        /\ heap[arg].types = given
        /\ error = NoError => result # arg

\* C1, as the code has it: check normalizes the caller's schema in place and
\* returns that same object -- whether it returns or fails, the types key then
\* holds one 5-column definition per given definition, the given columns
\* unchanged and a missing Fields column materialized as the empty list; the
\* other keys are untouched; on success the result is the argument itself.
C1_NormalizedInPlace ==
    cpc = "done" =>
        /\ Len(heap[arg].types) = Len(given)
        /\ \A i \in 1..Len(given) :
              /\ Len(heap[arg].types[i]) = Fields + 1
              /\ \A k \in 1..Len(given[i]) : heap[arg].types[i][k] = given[i][k]
              /\ Len(given[i]) = Fields => At(heap[arg].types[i], Fields) = <<>>
        /\ heap[arg].meta = <<>>
        /\ error = NoError => result = arg

\* a successful check of a definition given without its Fields column
C1_Witness ==
    /\ cpc = "done"
    /\ error = NoError
    /\ result = arg
    /\ heap[arg].types # given

\* the given types with the fields of every Array and Record numbered 1, 2, ...
Renumbered(ts) ==
    [i \in 1..Len(ts) |->
        IF Len(ts[i]) > Fields /\ At(ts[i], BaseType) \in {Array, Record}
        THEN LET fs == At(ts[i], Fields)
             IN  [ts[i] EXCEPT ![Fields + 1] = [k \in 1..Len(fs) |-> [fs[k] EXCEPT ![FieldID + 1] = k]]]
        ELSE ts[i]]

\* the schema is valid but for the field IDs of its Array and Record types
OtherwiseValid == CheckError(Normalized(Renumbered(given))) = NoError

\* <<i, k>>: field k of the Array or Record type i has another ID than k
OffOrdinal ==
    {p \in (1..Len(given)) \X (1..(MaxFields + 1)) :
        /\ Len(given[p[1]]) > Fields
        /\ At(given[p[1]], BaseType) \in {Array, Record}
        /\ p[2] <= Len(At(given[p[1]], Fields))
        /\ At(At(given[p[1]], Fields)[p[2]], FieldID) # p[2]}

\* the ID of field p is also the ID of another field of its type
Clashes(p) ==
    \E k \in 1..Len(At(given[p[1]], Fields)) :
        /\ k # p[2]
        /\ At(At(given[p[1]], Fields)[k], FieldID) = At(At(given[p[1]], Fields)[p[2]], FieldID)

\* the Item tag error that names field p, its ID and its ordinal
ItemTagError(p) ==
    Err("Item tag error", At(given[p[1]], TypeName),
        At(At(given[p[1]], Fields)[p[2]], FieldName),
        At(At(given[p[1]], Fields)[p[2]], FieldID), p[2])

\* C3, as stated: an otherwise valid schema passes check iff every field of
\* its Array and Record types has its ordinal as ID, and when exactly one field
\* has another ID -- equal to another field's ID or not -- check fails with the
\* Item tag error that names that field, its ID and the expected ordinal.
C3_ItemTagAlways ==
    (cpc = "done" /\ OtherwiseValid) =>
        /\ (error = NoError) <=> (OffOrdinal = {})
        /\ \A p \in OffOrdinal : OffOrdinal = {p} => error = ItemTagError(p)

\* C3, as the code has it: an otherwise valid schema passes check iff every
\* field of its Array and Record types has its ordinal as ID; when exactly one
\* field has another ID, check fails with the Item tag error naming that field,
\* its ID and the expected ordinal if the ID differs from the IDs of the other
\* fields, and with the Duplicate fieldID error of the type if it equals one.
C3_ItemTagOrDuplicate ==
    (cpc = "done" /\ OtherwiseValid) =>
        /\ (error = NoError) <=> (OffOrdinal = {})
        /\ \A p \in OffOrdinal : OffOrdinal = {p} =>
              IF Clashes(p)
              THEN error = Err("Duplicate fieldID", At(given[p[1]], TypeName), <<>>, -1, -1)
              ELSE error = ItemTagError(p)

\* one field of an otherwise valid Record or Array was given a non-ordinal ID
\* that no other field has, and check reported the Item tag error
C3_Witness ==
    /\ cpc = "done"
    /\ OtherwiseValid
    /\ \E p \in OffOrdinal : OffOrdinal = {p} /\ ~Clashes(p)
    /\ error.kind = "Item tag error"

\* the given types without the tagid options of their fields
WithoutTags(ts) ==
    [i \in 1..Len(ts) |->
        IF Len(ts[i]) > Fields
        THEN LET fs == At(ts[i], Fields)
             IN  [ts[i] EXCEPT ![Fields + 1] =
                    [k \in 1..Len(fs) |->
                        IF Len(fs[k]) > FieldOptions
                        THEN [fs[k] EXCEPT ![FieldOptions + 1] = SelectSeq(@, LAMBDA o : o[1] # "&")]
                        ELSE fs[k]]]
        ELSE ts[i]]

\* <<i, t>>: a general field of type i carries the option tagid = t
TagIds ==
    {p \in (1..Len(given)) \X (0..(MaxFields + 1)) :
        /\ Len(given[p[1]]) > Fields
        /\ \E k \in 1..Len(At(given[p[1]], Fields)) :
              /\ Len(At(given[p[1]], Fields)[k]) > FieldOptions
              /\ \E x \in 1..Len(At(At(given[p[1]], Fields)[k], FieldOptions)) :
                    At(At(given[p[1]], Fields)[k], FieldOptions)[x] = TagOpt(p[2])}

\* the field IDs of type i
FieldIds(i) == {At(At(given[i], Fields)[k], FieldID) : k \in 1..Len(At(given[i], Fields))}

\* C4: in a schema that is valid without its tagid options, check fails with
\* the bad external tag error when some field's tagid t -- any integer, 0
\* included -- is not the ID of a field of the same type, and passes when
\* every tagid is.
C4_TagIdResolves ==
    (cpc = "done" /\ TagIds # {} /\ CheckError(Normalized(WithoutTags(given))) = NoError) =>
        IF \E p \in TagIds : p[2] \notin FieldIds(p[1])
        THEN error.kind = "bad external tag"
        ELSE error = NoError

\* C10: the Invalid type error of the anonymous-field rule is raised only for
\* a type one of whose general (5-tuple) fields has a has-fields base type as
\* FieldType; the text of an item's description never causes it.
C10_FieldTypeOnly ==
    (cpc = "done" /\ error.kind = "Invalid type") =>
        \E i \in 1..Len(given) :
            /\ Len(given[i]) > Fields
            /\ \E k \in 1..Len(At(given[i], Fields)) :
                  /\ Len(At(given[i], Fields)[k]) = FieldDesc + 1
                  /\ has_fields(At(At(given[i], Fields)[k], FieldType))

(***************************************************************************)
(* Properties of analyze (SpecAnalyze)                                     *)
(***************************************************************************)
\* the roots of the record meta: roots, else exports, else none
MetaRoots ==
    SetOf(Get(Get(aschema, "meta", EmptyDict), "roots",
              Get(Get(aschema, "meta", EmptyDict), "exports", <<>>)))

Declared == {At(aschema.types[i], TypeName) : i \in 1..Len(aschema.types)}

Referenced == UNION {Refs(aschema.types[i]) : i \in 1..Len(aschema.types)}

\* C2: with D the declared names, R the names referred to and T the roots
\* of the record meta, analyze returns unreferenced = D \ (R \cup T),
\* undefined = R \ D and no cycles.
C2_RootsFromMeta ==
    apc = "done" =>
        aresult = [unreferenced |-> Declared \ (Referenced \cup MetaRoots),
                   undefined |-> Referenced \ Declared,
                   cycles |-> <<>>]

(***************************************************************************)
(* Properties of jidl_loads and jidl_dumps (SpecJidl)                      *)
(***************************************************************************)
\* C5: the text jidl_dumps produces for a checked schema is loaded, and the
\* schema loaded has the meta keys and values and the type definitions, in
\* order, of the schema dumped.
C5_RoundTrip ==
    (source # NoSchema /\ jpc # "loop") =>
        /\ jpc = "returned"
        /\ SetOf(loaded.meta) = SetOf(source.meta)
        /\ loaded.types = source.types

\* the line read last is blank or a closing brace
AfterBlank == n >= 1 /\ Strip(doc[n]) \in {<<>>, <<"}">>}

\* C6, as stated: a line that is empty, whitespace-only or "}" closes the
\* accumulator of the type read last, with the cleanup pass run on its fields.
C6_BlankCloses ==
    (jpc = "loop" /\ AfterBlank /\ types # <<>>) =>
        /\ fields = "None"
        /\ At(types[Len(types)], Fields) # <<>> => cleanups[Len(types)] = 1

\* the fields of the type read last, the accumulator
Accumulated == IF types # <<>> THEN At(types[Len(types)], Fields) ELSE <<>>

\* the accumulator is open and holds a field
Closing == fields = "ref" /\ Accumulated # <<>>

\* types and cleanups once the cleanup pass has run where Closing holds
Cleaned == IF Closing THEN WithFields(types, cleanup_tagid(Accumulated)) ELSE types

Counted == IF Closing THEN [cleanups EXCEPT ![Len(types)] = @ + 1] ELSE cleanups

\* one line is read
C6_Step ==
    (n' = n + 1) =>
        /\ doc[n + 1] = <<>> => UNCHANGED <<types, fields, cleanups, jpc>>
        /\ (doc[n + 1] # <<>> /\ types # <<>>
              /\ (Strip(doc[n + 1]) \in {<<>>, <<"}">>} \/ (MetaMatch(doc[n + 1]).ok /\ jpc' = "loop"))) =>
              /\ types' = Cleaned
              /\ cleanups' = Counted
              /\ fields' = IF Closing THEN "None" ELSE fields
              /\ jpc' = "loop"
        /\ (jpc' = "loop" /\ Len(types') = Len(types) + 1) =>
              /\ SubSeq(types', 1, Len(types)) = Cleaned
              /\ SubSeq(cleanups', 1, Len(types)) = Counted
              /\ At(types'[Len(types')], Fields) = <<>>
              /\ fields' = "ref"
        /\ (Len(types') = Len(types)) =>
              \A i \in 1..Len(types) :
                  (i < Len(types) \/ fields = "None") => At(types'[i], Fields) = At(types[i], Fields)
        /\ (Len(types') = Len(types) /\ fields = "ref" /\ fields' = "ref" /\ types' # types) =>
              /\ Len(At(types'[Len(types)], Fields)) = Len(Accumulated) + 1
              /\ SubSeq(At(types'[Len(types)], Fields), 1, Len(Accumulated)) = Accumulated
              /\ cleanups' = cleanups

\* C6, as the code has it: a field or item line is appended to the fields of
\* the type-definition line read last while its accumulator is open; an empty
\* line is skipped and closes nothing; a whitespace-only line, a "}" line and
\* a meta line close the accumulator, and a type-definition line closes it and
\* opens the one of the new type, with the cleanup pass run at that moment,
\* only when the accumulator holds at least one field (otherwise it stays as
\* it is); the fields of a type whose accumulator is closed never change.
C6_ClosedByNonEmptyLine == [][C6_Step]_vars

\* a whitespace-only line or a brace has closed an accumulator that held a
\* field, and the cleanup pass has run on it
C6_Witness ==
    /\ jpc = "loop"
    /\ AfterBlank
    /\ doc[n] # <<>>
    /\ fields = "None"
    /\ types # <<>>
    /\ At(types[Len(types)], Fields) # <<>>
    /\ cleanups[Len(types)] = 1

\* the line read last is ln, read while the open type was Enumerated
EnumeratedRead(ln) ==
    /\ n >= 1
    /\ doc[n] = ln
    /\ types # <<>>
    /\ At(types[Len(types)], BaseType) = Enumerated
    /\ fields = "ref"

\* the item appended last to the open type
LastItem == At(types[Len(types)], Fields)[Len(At(types[Len(types)], Fields))]

\* C7, as stated: under an open Enumerated type the line "2 R // d" is
\* parsed as the item (2, R, d), and the line "1 a String optional // d" of
\* the general field grammar is rejected with the grammar error.
C7_GeneralLineRejected ==
    /\ EnumeratedRead(hItem) => jpc \in {"loop", "returned"} /\ LastItem = <<2, <<"R">>, sD>>
    /\ EnumeratedRead(hField) => jpc = "ValueError"

\* C7, as the code has it: under an open Enumerated type the line "2 R // d"
\* is parsed as the item (2, R, d), and the line "1 a String optional // d" of
\* the general field grammar is accepted too, as the item whose value is all
\* the text between the ID and the description: (1, "a String optional", d).
C7_GeneralLineIsItem ==
    /\ EnumeratedRead(hItem) => jpc \in {"loop", "returned"} /\ LastItem = <<2, <<"R">>, sD>>
    /\ EnumeratedRead(hField) =>
          /\ jpc \in {"loop", "returned"}
          /\ LastItem = <<1, fa \o <<" ">> \o String \o <<" ">> \o sOptional, sD>>

\* a line of the general field grammar was read under an open Enumerated type
\* and the loop went on
C7_Witness == EnumeratedRead(hField) /\ jpc \in {"loop", "returned"}

\* C8: jidl_loads returns, or fails with the grammar error of raise_error;
\* it fails in no other way.
C8_OnlyGrammarError == jpc \in {"idle", "loop", "returned", "ValueError"}

\* C9: when jidl_loads returns, the cleanup pass has run exactly once on the
\* fields of every type that received a field or item line, the last type of
\* the document included.
C9_CleanupOncePerType ==
    jpc = "returned" =>
        \A i \in 1..Len(types) : At(types[i], Fields) # <<>> => cleanups[i] = 1

====
